---- MODULE Spec2Model ----
(***************************************************************************)
(* A model of the ComfyUI-Marigold custom nodes (src/nodes.py):            *)
(*   - MarigoldDepthEstimation.process : model cache, checkpoint           *)
(*     resolution, the batch / sub-batch sampling loop, ensembling,        *)
(*     progress ticks and teardown                       (Spec)            *)
(*   - SaveImageOpenEXR.saveexr : the file counter and file names          *)
(*                                                       (SpecExr)         *)
(*   - RemapDepth.remap : the linear remap with clamp    (SpecRemap)       *)
(* Depth values are fixed-point numbers: a value v is the integer          *)
(* v * Unit (remap results: v * Unit * Unit; normalized depth samples:     *)
(* v * 2 * Unit), so that the arithmetic of the code is exact.             *)
(***************************************************************************)
EXTENDS Integers, Sequences, FiniteSets, TLC

\* ---------------------------------------------------------------- bounds
MaxBatch == 2
MaxRepeat == 3
MaxSubBatch == 2
Unit == 2

VARIABLES
  \* MarigoldDepthEstimation: the node instance and its environment
  marigold_pipeline,   \* self.marigold_pipeline: "None" or the dtype of its unet
  exists,              \* which of folders_to_check (1..4) exist on disk
  \* one process call: position, arguments and locals
  pc, args, checkpoint_path, total, ticks, i, j,
  depth_maps, depth_map, depth_predictions, out,
  \* one process call: history of what the call did
  cacheAtStart, fetched, loaded, subBatches, lastRaw, ensembled, reclaimed,
  result, reuse,
  \* SaveImageOpenEXR: the output folder and one saveexr call
  files,               \* os.listdir(full_output_folder), names as character sequences
  exr_pc, filename, pending, written, clobbered, saved,
  \* RemapDepth: one remap call
  remap_pc, image, image_dtype, remap_args, remapped, remapped_dtype

procVars == <<marigold_pipeline, exists, pc, args, checkpoint_path, total, ticks,
              i, j, depth_maps, depth_map, depth_predictions, out, cacheAtStart,
              fetched, loaded, subBatches, lastRaw, ensembled, reclaimed,
              result, reuse>>

exrVars == <<files, exr_pc, filename, pending, written, clobbered, saved>>

remapVars == <<remap_pc, image, image_dtype, remap_args, remapped, remapped_dtype>>

vars == <<procVars, exrVars, remapVars>>

\* ------------------------------------------------------- pure helpers
Min(a, b) == IF a < b THEN a ELSE b

\* Python's s[a:b] for 0 <= a <= b on a sequence (0-based, end clamped)
Slice(s, a, b) == SubSeq(s, a + 1, Min(b, Len(s)))

\* list(range(0, stop, step)) as the sequence of its values
RECURSIVE RangeFrom(_, _, _)
RangeFrom(start, stop, step) ==
  IF start >= stop THEN <<>> ELSE <<start>> \o RangeFrom(start + step, stop, step)

\* precision = torch.float16 if use_fp16 else torch.float32
Precision(use_fp16) == IF use_fp16 THEN "fp16" ELSE "fp32"

\* a guard that forgets the precision check
NeedsLoadCachedOnly(cache, precision) == cache = "None"

\* the guard of the load block
NeedsLoad(cache, precision) == cache = "None" \/ cache # precision

\* a loop without the break: the last candidate that exists wins
LastExisting(ex) ==
  IF ex = {} THEN 0 ELSE CHOOSE k \in ex : \A m \in ex : k >= m

\* the for/break over folders_to_check: the first candidate that exists, 0 for None
FirstExisting(ex) ==
  IF ex = {} THEN 0 ELSE CHOOSE k \in ex : \A m \in ex : k <= m

\* the local path snapshot_download fetches into (it is also the 4th candidate)
FetchTarget == 4

Folders == 1..4

\* torch.clip(depth_map, -1.0, 1.0)
Clip(v, lo, hi) == IF v < lo THEN lo ELSE IF v > hi THEN hi ELSE v

\* (clip(depth_map) + 1.0) / 2.0, as a numerator over 2 * Unit
NormalizeDepth(raw) == Clip(raw, -Unit, Unit) + Unit

\* what the inference pipeline may return for one duplicate (raw, times Unit)
RawDepth == {-(Unit + 1), Unit - 1}

Unbound == [kind |-> "unbound", img |-> -1, dup |-> 0, raw |-> 0, val |-> 0]

Sample(img, dup, raw) ==
  [kind |-> "sample", img |-> img, dup |-> dup, raw |-> raw, val |-> NormalizeDepth(raw)]

\* the fused map ensemble_depths returns for the samples of one image
Fused(img) == [kind |-> "fused", img |-> img, dup |-> 0, raw |-> 0, val |-> 0]

\* pbar.update(1) once per sub-batch instead of once per depth map
TicksPerSubBatch(t, results) == t + 1

\* pbar.update(1) once per depth map of the sub-batch
TicksAfter(t, results) == t + Len(results)

\* ensembling whatever n_repeat is
ShouldEnsembleAlways(n_repeat) == n_repeat >= 1

\* if n_repeat > 1: ensemble
ShouldEnsemble(n_repeat) == n_repeat > 1

\* a teardown that ignores keep_model_loaded
TeardownAlways(keep_model_loaded, cache) == "None"

\* if not keep_model_loaded: self.marigold_pipeline = None
Teardown(keep_model_loaded, cache) == IF keep_model_loaded THEN cache ELSE "None"

Args ==
  [use_fp16 : BOOLEAN, keep_model_loaded : BOOLEAN, n_repeat : 1..MaxRepeat,
   n_repeat_batch_size : 1..MaxSubBatch, batch_size : 1..MaxBatch]

\* the node before any process call, with the candidate directories ex on disk
ProcAtRest(ex) ==
  /\ marigold_pipeline = "None"
  /\ exists = ex
  /\ pc = "idle"
  /\ args = [use_fp16 |-> TRUE, keep_model_loaded |-> TRUE, n_repeat |-> 1,
             n_repeat_batch_size |-> 1, batch_size |-> 1]
  /\ checkpoint_path = 0
  /\ total = 0
  /\ ticks = 0
  /\ i = 0
  /\ j = <<>>
  /\ depth_maps = <<>>
  /\ depth_map = Unbound
  /\ depth_predictions = <<>>
  /\ out = <<>>
  /\ cacheAtStart = "None"
  /\ fetched = FALSE
  /\ loaded = FALSE
  /\ subBatches = <<>>
  /\ lastRaw = <<>>
  /\ ensembled = <<>>
  /\ reclaimed = 0
  /\ result = "none"
  /\ reuse = "no"

\* ------------------------------------------------------------ saveexr
\* File names are sequences of one-character strings over a small alphabet.
MaxExisting == 5
MaxImages == 2
MaxSaved == 3

DigitChars == <<"0", "1", "2", "3", "4", "5", "6", "7", "8", "9">>

IsDigit(c) == \E d \in 1..10 : DigitChars[d] = c

DigitValue(c) == (CHOOSE d \in 1..10 : DigitChars[d] = c) - 1

\* the letters of the model's alphabet, for [a-zA-Z0-9]
Letters == {"a", "b", "e", "g", "n", "p", "r", "x"}

IsAlnum(c) == c \in Letters \/ IsDigit(c)

\* int(match.group(1))
RECURSIVE ParseInt(_)
ParseInt(ds) ==
  IF ds = <<>> THEN 0
  ELSE 10 * ParseInt(SubSeq(ds, 1, Len(ds) - 1)) + DigitValue(ds[Len(ds)])

RECURSIVE Decimal(_)
Decimal(n) ==
  IF n < 10 THEN <<DigitChars[n + 1]>> ELSE Decimal(n \div 10) \o <<DigitChars[(n % 10) + 1]>>

RECURSIVE ZeroPad(_, _)
ZeroPad(ds, width) == IF Len(ds) >= width THEN ds ELSE ZeroPad(<<"0">> \o ds, width)

\* the field width of {counter:05}
PadWidth == 5

\* f"{counter:05}"
FormatCounter(counter) == ZeroPad(Decimal(counter), PadWidth)

\* f"{filename}_{counter:05}.exr"
ExrName(fname, counter) ==
  fname \o <<"_">> \o FormatCounter(counter) \o <<".", "e", "x", "r">>

\* One element of a regular expression: which characters it takes (a literal,
\* a digit, an alphanumeric), how often ("1", "?", "+"), and whether the
\* characters it takes belong to group 1.
Tok(kind, ch, q, grp) == [kind |-> kind, ch |-> ch, q |-> q, grp |-> grp]

Takes(t, c) ==
  CASE t.kind = "lit" -> c = t.ch
    [] t.kind = "digit" -> IsDigit(c)
    [] t.kind = "alnum" -> IsAlnum(c)

\* The pattern text that the f-string makes of filename: every character stands
\* for itself, except that "+" repeats the element before it.
RECURSIVE CompileName(_)
CompileName(fname) ==
  IF fname = <<>> THEN <<>>
  ELSE LET c == fname[Len(fname)]
           before == SubSeq(fname, 1, Len(fname) - 1)
       IN IF c = "+" /\ before # <<>> /\ before[Len(before)] # "+"
          THEN CompileName(SubSeq(before, 1, Len(before) - 1))
                 \o <<Tok("lit", before[Len(before)], "+", FALSE)>>
          ELSE CompileName(before) \o <<Tok("lit", c, "1", FALSE)>>

\* _(\d+)_?\.[a-zA-Z0-9]+
SuffixPattern ==
  <<Tok("lit", "_", "1", FALSE), Tok("digit", "", "+", TRUE), Tok("lit", "_", "?", FALSE),
    Tok("lit", ".", "1", FALSE), Tok("alnum", "", "+", FALSE)>>

\* a pattern that takes the file name as it is
RECURSIVE LiteralName(_)
LiteralName(fname) ==
  IF fname = <<>> THEN <<>>
  ELSE <<Tok("lit", Head(fname), "1", FALSE)>> \o LiteralName(Tail(fname))

\* what re.escape(filename) in the pattern would give
EscapedPattern(fname) == LiteralName(fname) \o SuffixPattern

\* f"{filename}_(\d+)_?\.[a-zA-Z0-9]+"
Pattern(fname) == CompileName(fname) \o SuffixPattern

\* re.fullmatch(p, s): the texts of group 1 over the ways p takes all of s
\* (empty: no match; the patterns of this model match in one way at most)
RECURSIVE Groups(_, _, _)
Groups(p, s, g) ==
  IF p = <<>> THEN (IF s = <<>> THEN {g} ELSE {})
  ELSE LET t == Head(p)
       IN IF t.q = "?"
          THEN Groups(Tail(p), s, g)
                 \cup (IF s # <<>> /\ Takes(t, Head(s))
                       THEN Groups(Tail(p), Tail(s), g) ELSE {})
          ELSE IF s = <<>> \/ ~Takes(t, Head(s)) THEN {}
          ELSE LET g2 == IF t.grp THEN Append(g, Head(s)) ELSE g
               IN Groups(Tail(p), Tail(s), g2)
                    \cup (IF t.q = "+" THEN Groups(p, Tail(s), g2) ELSE {})

\* the counters of the files of a listing that match a pattern
Counters(listing, p) ==
  {ParseInt(g) : g \in UNION {Groups(p, f, <<>>) : f \in listing}}

\* the largest of a set of counters, 0 when there is none
MaxOf(S) == IF S = {} THEN 0 ELSE CHOOSE m \in S : \A n \in S : n <= m

\* file_counter(): the largest counter among the files that match the pattern
file_counter(listing, fname) == MaxOf(Counters(listing, Pattern(fname)))

\* filename_prefix values given to the node
Prefixes == {<<"a">>, <<"a", "a">>, <<"a", "+">>}

\* files that may lie in the output folder before the node runs
OtherFiles ==
  { <<"a", "_", "0", "0", "0", "0", "7", "_", ".", "p", "n", "g">>,
    <<"a", "a", "_", "0", "0", "0", "0", "2", ".", "e", "x", "r">>,
    <<"a", "+", "_", "0", "0", "0", "0", "1", ".", "e", "x", "r">>,
    <<"a", "_", "9", ".", "e", "x", "r">>,
    <<"a", ".", "e", "x", "r">> }

ExrAtRest(listing) ==
  /\ files = listing
  /\ exr_pc = "idle"
  /\ filename = <<>>
  /\ pending = 0
  /\ written = <<>>
  /\ clobbered = {}
  /\ saved = 0

RemapAtRest(img, dtype) ==
  /\ remap_pc = "idle"
  /\ image = img
  /\ image_dtype = dtype
  /\ remap_args = [min |-> 0, max |-> 0, clamp |-> FALSE]
  /\ remapped = <<>>
  /\ remapped_dtype = dtype

InitExr ==
  /\ ProcAtRest({})
  /\ RemapAtRest(<<0>>, "fp32")
  /\ \E n \in 0..MaxExisting, extra \in SUBSET OtherFiles :
       ExrAtRest({ExrName(<<"a">>, c) : c \in 1..n} \cup extra)

\* entry of saveexr: get_save_image_path gives the folder and the file name
SaveBegin ==
  /\ exr_pc = "idle"
  /\ \E fname \in Prefixes, count \in 1..MaxImages :
       /\ saved + count <= MaxSaved
       /\ filename' = fname
       /\ pending' = count
  /\ written' = <<>>
  /\ clobbered' = {}
  /\ exr_pc' = "images"
  /\ UNCHANGED <<files, saved>>
  /\ UNCHANGED <<procVars, remapVars>>

\* one turn of "for image in images": count the files, name the file, write it
SaveImage ==
  /\ exr_pc = "images"
  /\ pending > 0
  /\ LET counter == file_counter(files, filename) + 1
         file == ExrName(filename, counter)
     IN /\ written' = Append(written, [file |-> file, counter |-> counter,
                                       listing |-> files])
        /\ clobbered' = clobbered \cup ({file} \cap files)
        /\ files' = files \cup {file}
  /\ pending' = pending - 1
  /\ saved' = saved + 1
  /\ UNCHANGED <<exr_pc, filename>>
  /\ UNCHANGED <<procVars, remapVars>>

\* return the view URL of the last file
SaveReturn ==
  /\ exr_pc = "images"
  /\ pending = 0
  /\ exr_pc' = "idle"
  /\ UNCHANGED <<files, filename, pending, written, clobbered, saved>>
  /\ UNCHANGED <<procVars, remapVars>>

NextExr ==
  \/ SaveBegin
  \/ SaveImage
  \/ SaveReturn

SpecExr == InitExr /\ [][NextExr]_vars

\* -------------------------------------------------------------- remap
MaxPixels == 2

\* pixel values of the input image, times Unit: -1.0 .. 2.0
PixelValues == (-Unit)..(2 * Unit)

\* values of the min and max inputs, times Unit
MinValues == (-Unit)..Unit

MaxValues == 0..(2 * Unit)

\* the operands of the remap the wrong way round
RemapPixelSwapped(x, min, max) == max * Unit + x * (min - max)

\* min + image * (max - min) on one pixel, as a numerator over Unit * Unit
RemapPixel(x, min, max) == min * Unit + x * (max - min)

\* torch.clamp(image, min=0.0, max=1.0) on one pixel, over Unit * Unit
Clamp01(v) == Clip(v, 0, Unit * Unit)

\* if image.dtype == torch.float16: image = image.to(torch.float32)
Upcast(dtype) == IF dtype = "fp16" THEN "fp32" ELSE dtype

InitRemap ==
  /\ ProcAtRest({})
  /\ ExrAtRest({})
  /\ \E n \in 1..MaxPixels :
       \E img \in [1..n -> PixelValues], dtype \in {"fp16", "fp32"} :
         RemapAtRest(img, dtype)

\* RemapDepth.remap
Remap ==
  /\ remap_pc = "idle"
  /\ \E min \in MinValues, max \in MaxValues, clamp \in BOOLEAN :
       /\ remap_args' = [min |-> min, max |-> max, clamp |-> clamp]
       /\ remapped' = [k \in 1..Len(image) |->
                         IF clamp THEN Clamp01(RemapPixel(image[k], min, max))
                         ELSE RemapPixel(image[k], min, max)]
  /\ remapped_dtype' = Upcast(image_dtype)
  /\ remap_pc' = "done"
  /\ UNCHANGED <<image, image_dtype>>
  /\ UNCHANGED <<procVars, exrVars>>

NextRemap == Remap

SpecRemap == InitRemap /\ [][NextRemap]_vars

\* ------------------------------------------------------------- process
Init ==
  /\ \E ex \in SUBSET Folders : ProcAtRest(ex)
  /\ ExrAtRest({})
  /\ RemapAtRest(<<0>>, "fp32")

\* leaving process by return or by an exception: the locals of the loop are gone
\* (the returned batch out and the progress bar's counts are the caller's to see)
Unwind ==
  /\ i' = 0
  /\ j' = <<>>
  /\ depth_maps' = <<>>
  /\ depth_map' = Unbound
  /\ depth_predictions' = <<>>
  /\ subBatches' = <<>>
  /\ lastRaw' = <<>>
  /\ ensembled' = <<>>
  /\ reclaimed' = 0

\* entry of process up to the guard of the load block
Call ==
  /\ pc = "idle"
  /\ \E a \in Args :
       /\ args' = a
       /\ pc' = IF NeedsLoad(marigold_pipeline, Precision(a.use_fp16))
                THEN "resolve" ELSE "pbar"
       /\ reuse' = IF result = "raised" /\ a.use_fp16 = args.use_fp16
                   THEN (IF args.keep_model_loaded THEN "keep" ELSE "nokeep")
                   ELSE "no"
  /\ cacheAtStart' = marigold_pipeline
  /\ checkpoint_path' = 0
  /\ total' = 0
  /\ ticks' = 0
  /\ i' = 0
  /\ j' = <<>>
  /\ depth_maps' = <<>>
  /\ depth_map' = Unbound
  /\ depth_predictions' = <<>>
  /\ out' = <<>>
  /\ fetched' = FALSE
  /\ loaded' = FALSE
  /\ subBatches' = <<>>
  /\ lastRaw' = <<>>
  /\ ensembled' = <<>>
  /\ reclaimed' = 0
  /\ result' = "running"
  /\ UNCHANGED <<marigold_pipeline, exists>>
  /\ UNCHANGED <<exrVars, remapVars>>

\* the loop over folders_to_check
Resolve ==
  /\ pc = "resolve"
  /\ checkpoint_path' = FirstExisting(exists)
  /\ pc' = IF FirstExisting(exists) = 0 THEN "fetch" ELSE "load"
  /\ UNCHANGED <<marigold_pipeline, exists, args, total, ticks, i, j, depth_maps,
                 depth_map, depth_predictions, out, cacheAtStart, fetched, loaded,
                 subBatches, lastRaw, ensembled, reclaimed, result, reuse>>
  /\ UNCHANGED <<exrVars, remapVars>>

\* snapshot_download succeeds and fills the fixed local path
FetchOk ==
  /\ pc = "fetch"
  /\ fetched' = TRUE
  /\ checkpoint_path' = FetchTarget
  /\ exists' = exists \cup {FetchTarget}
  /\ pc' = "load"
  /\ UNCHANGED <<marigold_pipeline, args, total, ticks, i, j, depth_maps,
                 depth_map, depth_predictions, out, cacheAtStart, loaded,
                 subBatches, lastRaw, ensembled, reclaimed, result, reuse>>
  /\ UNCHANGED <<exrVars, remapVars>>

\* the import or snapshot_download raises: FileNotFoundError leaves process
FetchFail ==
  /\ pc = "fetch"
  /\ fetched' = TRUE
  /\ result' = "FileNotFoundError"
  /\ pc' = "idle"
  /\ UNCHANGED <<marigold_pipeline, exists, args, checkpoint_path, total, ticks, i,
                 j, depth_maps, depth_map, depth_predictions, out, cacheAtStart,
                 loaded, subBatches, lastRaw, ensembled, reclaimed, reuse>>
  /\ UNCHANGED <<exrVars, remapVars>>

\* from_pretrained(checkpoint_path), .to(device) / .half(), unet.eval()
Load ==
  /\ pc = "load"
  /\ marigold_pipeline' = Precision(args.use_fp16)
  /\ loaded' = TRUE
  /\ pc' = "pbar"
  /\ UNCHANGED <<exists, args, checkpoint_path, total, ticks, i, j, depth_maps,
                 depth_map, depth_predictions, out, cacheAtStart, fetched,
                 subBatches, lastRaw, ensembled, reclaimed, result, reuse>>
  /\ UNCHANGED <<exrVars, remapVars>>

\* pbar = ProgressBar(batch_size * n_repeat); out = []
ProgressBar ==
  /\ pc = "pbar"
  /\ total' = args.batch_size * args.n_repeat
  /\ ticks' = 0
  /\ out' = <<>>
  /\ i' = 0
  /\ pc' = "image"
  /\ UNCHANGED <<marigold_pipeline, exists, args, checkpoint_path, j, depth_maps,
                 depth_map, depth_predictions, cacheAtStart, fetched, loaded,
                 subBatches, lastRaw, ensembled, reclaimed, result, reuse>>
  /\ UNCHANGED <<exrVars, remapVars>>

\* for i in range(batch_size): duplicate the image, depth_maps = [],
\* j ranges over range(0, n_repeat, batch_process_size)
StartImage ==
  /\ pc = "image"
  /\ i < args.batch_size
  /\ depth_maps' = <<>>
  /\ subBatches' = <<>>
  /\ j' = RangeFrom(0, args.n_repeat, args.n_repeat_batch_size)
  /\ pc' = "infer"
  /\ UNCHANGED <<marigold_pipeline, exists, args, checkpoint_path, total, ticks, i,
                 depth_map, depth_predictions, out, cacheAtStart, fetched, loaded,
                 lastRaw, ensembled, reclaimed, result, reuse>>
  /\ UNCHANGED <<exrVars, remapVars>>

\* duplicated_batch as the sequence of its duplicates' numbers 1..n_repeat
DuplicatedBatch(n_repeat) == [k \in 1..n_repeat |-> k]

\* an off-by-one slice: duplicated_batch[j:j + batch_process_size + 1]
SubBatchOverlap(n_repeat, jj, batch_process_size) ==
  Slice(DuplicatedBatch(n_repeat), jj, jj + batch_process_size + 1)

\* sub_batch = duplicated_batch[j:j + batch_process_size]
SubBatch(n_repeat, jj, batch_process_size) ==
  Slice(DuplicatedBatch(n_repeat), jj, jj + batch_process_size)

\* one pipeline call on a sub-batch, then the loop over its depth maps
Infer ==
  /\ pc = "infer"
  /\ j # <<>>
  /\ LET sub_batch == SubBatch(args.n_repeat, Head(j), args.n_repeat_batch_size)
     IN \E raws \in [1..Len(sub_batch) -> RawDepth] :
          LET results == [k \in 1..Len(sub_batch) |-> Sample(i, sub_batch[k], raws[k])]
          IN /\ depth_maps' = depth_maps \o results
             /\ depth_map' = IF results = <<>> THEN depth_map ELSE results[Len(results)]
             /\ ticks' = TicksAfter(ticks, results)
             /\ subBatches' = Append(subBatches, Len(sub_batch))
             /\ lastRaw' = raws
  /\ j' = Tail(j)
  /\ UNCHANGED <<marigold_pipeline, exists, pc, args, checkpoint_path, total, i,
                 depth_predictions, out, cacheAtStart, fetched, loaded, ensembled,
                 reclaimed, result, reuse>>
  /\ UNCHANGED <<exrVars, remapVars>>

\* a pipeline error handled by a finally-style teardown
InferRaiseTeardown ==
  /\ pc = "infer"
  /\ j # <<>>
  /\ result' = "raised"
  /\ pc' = "idle"
  /\ Unwind
  /\ out' = <<>>
  /\ marigold_pipeline' = Teardown(args.keep_model_loaded, marigold_pipeline)
  /\ UNCHANGED <<exists, args, checkpoint_path, total, ticks,
                 cacheAtStart, fetched, loaded, reuse>>
  /\ UNCHANGED <<exrVars, remapVars>>

\* the pipeline call raises (e.g. out of memory): nothing in process catches it
InferRaise ==
  /\ pc = "infer"
  /\ j # <<>>
  /\ result' = "raised"
  /\ pc' = "idle"
  /\ Unwind
  /\ out' = <<>>
  /\ UNCHANGED <<marigold_pipeline, exists, args, checkpoint_path, total, ticks,
                 cacheAtStart, fetched, loaded, reuse>>
  /\ UNCHANGED <<exrVars, remapVars>>

\* a collect step that leaves out torch.cuda.empty_cache()
CollectNoReclaim ==
  /\ pc = "infer"
  /\ j = <<>>
  /\ depth_predictions' = depth_maps
  /\ pc' = "ensemble"
  /\ UNCHANGED <<marigold_pipeline, exists, args, checkpoint_path, total, ticks, i,
                 j, depth_maps, depth_map, out, cacheAtStart, fetched, loaded,
                 subBatches, lastRaw, ensembled, reclaimed, result, reuse>>
  /\ UNCHANGED <<exrVars, remapVars>>

\* depth_predictions = torch.cat(depth_maps); torch.cuda.empty_cache()
Collect ==
  /\ pc = "infer"
  /\ j = <<>>
  /\ depth_predictions' = depth_maps
  /\ reclaimed' = reclaimed + 1
  /\ pc' = "ensemble"
  /\ UNCHANGED <<marigold_pipeline, exists, args, checkpoint_path, total, ticks, i,
                 j, depth_maps, depth_map, out, cacheAtStart, fetched, loaded,
                 subBatches, lastRaw, ensembled, result, reuse>>
  /\ UNCHANGED <<exrVars, remapVars>>

\* depth_map, pred_uncert = ensemble_depths(depth_predictions, ...)
Ensemble ==
  /\ pc = "ensemble"
  /\ ShouldEnsemble(args.n_repeat)
  /\ depth_map' = Fused(i)
  /\ ensembled' = Append(ensembled, [img |-> i, n |-> Len(depth_predictions),
                                     reclaimed |-> reclaimed])
  /\ pc' = "append"
  /\ UNCHANGED <<marigold_pipeline, exists, args, checkpoint_path, total, ticks, i,
                 j, depth_maps, depth_predictions, out, cacheAtStart, fetched,
                 loaded, subBatches, lastRaw, reclaimed, result, reuse>>
  /\ UNCHANGED <<exrVars, remapVars>>

\* ensemble_depths raises: nothing in process catches it
EnsembleRaise ==
  /\ pc = "ensemble"
  /\ ShouldEnsemble(args.n_repeat)
  /\ result' = "raised"
  /\ pc' = "idle"
  /\ Unwind
  /\ out' = <<>>
  /\ UNCHANGED <<marigold_pipeline, exists, args, checkpoint_path, total, ticks,
                 cacheAtStart, fetched, loaded, reuse>>
  /\ UNCHANGED <<exrVars, remapVars>>

\* n_repeat == 1: the if is skipped and depth_map is still the loop variable
SkipEnsemble ==
  /\ pc = "ensemble"
  /\ ~ShouldEnsemble(args.n_repeat)
  /\ pc' = "append"
  /\ UNCHANGED <<marigold_pipeline, exists, args, checkpoint_path, total, ticks, i,
                 j, depth_maps, depth_map, depth_predictions, out, cacheAtStart,
                 fetched, loaded, subBatches, lastRaw, ensembled, reclaimed,
                 result, reuse>>
  /\ UNCHANGED <<exrVars, remapVars>>

\* out.append(depth_map repeated to 3 channels); del depth_map, depth_predictions
AppendOut ==
  /\ pc = "append"
  /\ out' = Append(out, depth_map)
  /\ depth_map' = Unbound
  /\ depth_predictions' = <<>>
  /\ i' = i + 1
  /\ pc' = "image"
  /\ UNCHANGED <<marigold_pipeline, exists, args, checkpoint_path, total, ticks, j,
                 depth_maps, cacheAtStart, fetched, loaded, subBatches, lastRaw,
                 ensembled, reclaimed, result, reuse>>
  /\ UNCHANGED <<exrVars, remapVars>>

\* depth_map.unsqueeze(2).repeat(1, 1, 3) raises (out of memory; or, on the
\* n_repeat == 1 path, a loop variable that kept the leading dimension that
\* torch.cat(depth_maps, dim=0) relies on, which repeat(1, 1, 3) rejects):
\* nothing in process catches it
AppendRaise ==
  /\ pc = "append"
  /\ result' = "raised"
  /\ pc' = "idle"
  /\ Unwind
  /\ out' = <<>>
  /\ UNCHANGED <<marigold_pipeline, exists, args, checkpoint_path, total, ticks,
                 cacheAtStart, fetched, loaded, reuse>>
  /\ UNCHANGED <<exrVars, remapVars>>

\* after the loop: stack (and invert) the output, tear the model down, return
Finish ==
  /\ pc = "image"
  /\ i >= args.batch_size
  /\ marigold_pipeline' = Teardown(args.keep_model_loaded, marigold_pipeline)
  /\ result' = "returned"
  /\ pc' = "idle"
  /\ Unwind
  /\ UNCHANGED <<exists, args, checkpoint_path, total, ticks, out, cacheAtStart,
                 fetched, loaded, reuse>>
  /\ UNCHANGED <<exrVars, remapVars>>

Next ==
  \/ Call
  \/ Resolve
  \/ FetchOk
  \/ FetchFail
  \/ Load
  \/ ProgressBar
  \/ StartImage
  \/ Infer
  \/ InferRaise
  \/ Collect
  \/ Ensemble
  \/ EnsembleRaise
  \/ SkipEnsemble
  \/ AppendOut
  \/ AppendRaise
  \/ Finish

Spec == Init /\ [][Next]_vars


\* ------------------------------------------------- properties of process
RECURSIVE SumSeq(_)
SumSeq(s) == IF s = <<>> THEN 0 ELSE Head(s) + SumSeq(Tail(s))

RequestedPrecision == IF args.use_fp16 THEN "fp16" ELSE "fp32"

\* no model cached at the start of the call, or one of another precision
StaleAtStart == cacheAtStart = "None" \/ cacheAtStart # RequestedPrecision

InLoop == result = "running" /\ pc \in {"image", "infer", "ensemble", "append"}

PastLoadBlock == (result = "running" /\ pc = "pbar") \/ InLoop

Returned == pc = "idle" /\ result = "returned"

Raised == pc = "idle" /\ result = "raised"

CheckpointNotFound == pc = "idle" /\ result = "FileNotFoundError"

C2_CacheAfterReturn ==
  /\ Returned =>
       /\ marigold_pipeline = (IF args.keep_model_loaded THEN RequestedPrecision ELSE "None")
       /\ Len(out) = args.batch_size
  /\ PastLoadBlock => marigold_pipeline = RequestedPrecision

\* C2 witness: a call on a batch of several images returned with keep_model_loaded false
C2_Witness ==
  /\ Returned /\ ~args.keep_model_loaded /\ marigold_pipeline = "None"
  /\ args.batch_size > 1 /\ Len(out) = args.batch_size

\* C3: for each image the n_repeat duplicates are cut into consecutive sub-batches
\* of size 1..n_repeat_batch_size, one pipeline call per sub-batch,
\* ceil(n_repeat / n_repeat_batch_size) calls per image, and the collected samples
\* are exactly the n_repeat duplicates' samples, in duplicate order.
C3_SubBatchPartition ==
  /\ (result = "running" /\ pc \in {"infer", "ensemble", "append"}) =>
       /\ \A k \in 1..Len(subBatches) :
            /\ subBatches[k] >= 1
            /\ subBatches[k] <= args.n_repeat_batch_size
       /\ Len(depth_maps) = SumSeq(subBatches)
       /\ Len(depth_maps) <= args.n_repeat
       /\ \A k \in 1..Len(depth_maps) :
            /\ depth_maps[k].kind = "sample"
            /\ depth_maps[k].img = i
            /\ depth_maps[k].dup = k
  /\ (result = "running" /\ pc \in {"ensemble", "append"}) =>
       /\ Len(subBatches) =
            (args.n_repeat + args.n_repeat_batch_size - 1) \div args.n_repeat_batch_size
       /\ Len(depth_predictions) = args.n_repeat
       /\ depth_predictions = depth_maps

\* C3 witness: three duplicates were sampled in sub-batches of 2 and 1
C3_Witness ==
  /\ result = "running" /\ pc = "ensemble"
  /\ args.n_repeat = 3 /\ args.n_repeat_batch_size = 2
  /\ subBatches = <<2, 1>> /\ Len(depth_predictions) = 3

C6_CheckpointResolution ==
  /\ (pc = "load" \/ loaded) =>
       IF fetched
       THEN checkpoint_path = 4 /\ exists = {4}
       ELSE /\ checkpoint_path \in exists
            /\ \A m \in exists : checkpoint_path <= m
  /\ pc = "fetch" => (exists = {} /\ ~fetched /\ ~loaded)
  /\ fetched => exists \subseteq {4}
  /\ CheckpointNotFound =>
       /\ fetched
       /\ ~loaded
       /\ exists = {}
       /\ marigold_pipeline = cacheAtStart
  /\ result = "FileNotFoundError" => pc = "idle"

\* C6 witness: a model was loaded from the second candidate while later candidates
\* exist too, without a fetch
C6_Witness ==
  /\ loaded /\ ~fetched /\ checkpoint_path = 2 /\ exists = {2, 3, 4}

\* C7: the progress bar advances by one per completed depth sample: the tick
\* count is the number of samples completed so far, never above the declared
\* total batch_size * n_repeat, and equal to it when the call returns normally.
C7_ProgressTicks ==
  /\ (PastLoadBlock \/ Returned \/ Raised) => ticks <= total
  /\ InLoop => total = args.batch_size * args.n_repeat
  /\ (result = "running" /\ pc = "image") => ticks = i * args.n_repeat
  /\ (result = "running" /\ pc \in {"infer", "ensemble", "append"}) =>
       ticks = i * args.n_repeat + Len(depth_maps)
  /\ Returned => (ticks = total /\ total = args.batch_size * args.n_repeat)

\* C7 witness: a call on two images with three samples each returned after six ticks
C7_Witness ==
  /\ Returned /\ args.batch_size = 2 /\ args.n_repeat = 3
  /\ args.n_repeat_batch_size = 2 /\ ticks = 6

\* C9: with n_repeat > 1 the Ensemble Solver runs once per image, on all
\* n_repeat samples of that image and after that image's cache reclaim, and
\* before any pipeline call for the next image; the output holds one fused map per
\* image, in input order.
C9_EnsembleOncePerImage ==
  args.n_repeat > 1 =>
    /\ InLoop =>
         /\ Len(ensembled) = (IF pc = "append" THEN i + 1 ELSE i)
         /\ \A k \in 1..Len(ensembled) :
              /\ ensembled[k].img = k - 1
              /\ ensembled[k].n = args.n_repeat
              /\ ensembled[k].reclaimed = k
         /\ Len(out) = i
         /\ pc = "append" => depth_map = [kind |-> "fused", img |-> i, dup |-> 0,
                                          raw |-> 0, val |-> 0]
    /\ (InLoop \/ Returned) =>
         \A k \in 1..Len(out) : out[k].kind = "fused" /\ out[k].img = k - 1
    /\ Returned => Len(out) = args.batch_size

\* C9 witness: both images of a batch have been ensembled, each from three samples
C9_Witness ==
  /\ result = "running" /\ pc = "image" /\ i = 2 /\ args.batch_size = 2
  /\ args.n_repeat = 3 /\ Len(ensembled) = 2 /\ Len(out) = 2

\* C10: when the pipeline or the Ensemble Solver raises, the call ends there
\* (no retry), the model of the call's precision stays cached whatever
\* keep_model_loaded says, and the next call with the same precision runs on it
\* without loading.
C10_RaiseKeepsModel ==
  /\ result = "raised" => (pc = "idle" /\ marigold_pipeline = RequestedPrecision)
  /\ (result = "running" /\ reuse # "no") =>
       /\ cacheAtStart = RequestedPrecision
       /\ marigold_pipeline = RequestedPrecision
       /\ ~loaded
       /\ ~fetched
       /\ pc \notin {"resolve", "fetch", "load"}

\* C10 witness: the call after one that raised with keep_model_loaded false is
\* sampling on the model that call left behind
C10_Witness ==
  /\ result = "running" /\ reuse = "nokeep" /\ pc = "infer" /\ subBatches # <<>>
  /\ ~loaded /\ marigold_pipeline = RequestedPrecision

\* ------------------------------------------------- properties of saveexr
\* C5: every file written is {filename}_{c:05}.exr with c one more than the
\* largest counter among the files matching the prefix pattern in the folder at
\* that moment (1 when there is none); so the files of one call have consecutive
\* counters, one file per image, and no file that was there is overwritten.
C5_NextCounterNoOverwrite ==
  /\ clobbered = {}
  /\ \A k \in 1..Len(written) :
       /\ written[k].counter =
            MaxOf(Counters(written[k].listing, Pattern(filename))) + 1
       /\ written[k].file = ExrName(filename, written[k].counter)
       /\ written[k].file \notin written[k].listing
       /\ k > 1 => written[k].counter = written[k - 1].counter + 1
  /\ Cardinality({written[k].file : k \in 1..Len(written)}) = Len(written)

\* the counters of the files named {fname}_{digits}[_].{ext}, fname taken as it is
NamedCounters(listing, fname) == Counters(listing, EscapedPattern(fname))

\* the same for a file name prefix without characters that mean something in a
\* regular expression: there the pattern matches the files of that name and no
\* others, and the code does what C5 says
C5_PlainPrefix ==
  (\A k \in 1..Len(filename) : filename[k] # "+") =>
    /\ C5_NextCounterNoOverwrite
    /\ \A k \in 1..Len(written) :
         written[k].counter = MaxOf(NamedCounters(written[k].listing, filename)) + 1

\* a batch was saved under a plain prefix next to files 00001..00005: it got 00006
C5_PlainWitness ==
  /\ exr_pc = "idle" /\ filename = <<"a">> /\ Len(written) = 2
  /\ written[1].counter = 6 /\ written[2].counter = 7
  /\ written[1].file = <<"a", "_", "0", "0", "0", "0", "6", ".", "e", "x", "r">>

\* -------------------------------------------------- properties of remap
\* C8: remap with min = 0.0, max = 1.0 and clamp = True returns every input
\* value that lies in [0,1] unchanged.
C8_RemapIdentityOnUnitRange ==
  (remap_pc = "done" /\ remap_args.min = 0 /\ remap_args.max = Unit /\ remap_args.clamp) =>
    /\ Len(remapped) = Len(image)
    /\ \A k \in 1..Len(image) :
         (image[k] >= 0 /\ image[k] <= Unit) => remapped[k] = image[k] * Unit

\* C8 witness: a half-precision image with a value strictly inside (0,1) went
\* through remap(0.0, 1.0, clamp=True)
C8_Witness ==
  /\ remap_pc = "done" /\ remap_args.min = 0 /\ remap_args.max = Unit /\ remap_args.clamp
  /\ image_dtype = "fp16"
  /\ \E k \in 1..Len(image) : image[k] > 0 /\ image[k] < Unit /\ remapped[k] = image[k] * Unit

====
